---- MODULE Spec2Model ----
(***************************************************************************)
(* Movement-and-collision core of coursework.cpp: the frame loop of main,  *)
(* keyboardInput, mouseInput, checkCollision and objectCollision.          *)
(*                                                                         *)
(* The program computes in float.  The model computes in fixed point:      *)
(*   positions and scales   in units of 1/20   (0.05; 4.5 is 90)           *)
(*   time                   in units of 1/4 s  (deltaTime 1 is 0.25 s)     *)
(*   front / right          in units of 1/5    ((0,0,-1) is (0,0,-5))      *)
(*   yaw / pitch            in units of 1e-4 rad                           *)
(* so that 5.0f * deltaTime * camera.front is Speed * deltaTime * front    *)
(* in position units, and distance < radius is compared on the squares.    *)
(* All values the model visits are exact in these units.                   *)
(***************************************************************************)
EXTENDS Integers, Sequences, FiniteSets, TLC

VARIABLES
    pc,           \* position of main: "loop", "keyboard", "mouse", "render", "done"; "probe", "probed" in CollisionSpec
    shouldClose,  \* the window's close flag (glfwWindowShouldClose)
    deltaTime,    \* global deltaTime
    eye,          \* camera.eye
    front,        \* camera.front
    right,        \* camera.right
    yaw,          \* camera.yaw
    pitch,        \* camera.pitch
    last,         \* history of the call that has just returned: keyboardInput's originalPos, the
                  \* keys it sampled as pressed, and the value checkCollision returned to it
    args          \* CollisionSpec: the arguments (position, objects) of a direct call of checkCollision

vars == <<pc, shouldClose, deltaTime, eye, front, right, yaw, pitch, last, args>>

----------------------------------------------------------------------------
(* Vectors *)

Vec(x, y, z) == [x |-> x, y |-> y, z |-> z]
VAdd(a, b) == Vec(a.x + b.x, a.y + b.y, a.z + b.z)
VSub(a, b) == Vec(a.x - b.x, a.y - b.y, a.z - b.z)
VScale(k, a) == Vec(k * a.x, k * a.y, k * a.z)
Abs(n) == IF n < 0 THEN -n ELSE n
Min(a, b) == IF a < b THEN a ELSE b
Max(a, b) == IF a > b THEN a ELSE b

----------------------------------------------------------------------------
(* Bounds of the model *)

MaxCoord == 23       \* committed eye positions are kept within |x|, |z| <= 23 * 0.25
MaxYaw == 15710      \* |yaw| is kept within a quarter turn
MaxPitch == 24980    \* |pitch| is kept within pi - atan(3/4)
MaxObjects == 2      \* length of the object lists of CollisionSpec

----------------------------------------------------------------------------
(* Program constants *)

cameraRadius == 10   \* 0.5f
Speed == 5           \* 5.0f
FloorY == -80        \* -4.0f
Sensitivity == 5     \* 0.0005f
CentreX == 512       \* 1024 / 2
CentreY == 384       \* 768 / 2

\* boxBound roomBounds[]
Bound(xMin, xMax, yMin, yMax, zMin, zMax) ==
    [xMin |-> xMin, xMax |-> xMax, yMin |-> yMin, yMax |-> yMax, zMin |-> zMin, zMax |-> zMax]

roomBounds == <<
    Bound(-100, 100, -100, -90, -100, 100),     \* Floor
    Bound(-100, 100,   50,  60, -100, 100),     \* Ceiling
    Bound(-100, 100,  -90,  50, -100, -90),     \* Back Wall
    Bound(-100, 100,  -90,  50,   90, 100),     \* Front Wall
    Bound(-100, -90,  -90,  50, -100, 100),     \* Left Wall
    Bound(  90, 100,  -90,  50, -100, 100) >>   \* Right Wall

\* struct Object; rotation and angle are not read by the collision code
Object(name, position, scale) == [name |-> name, position |-> position, scale |-> scale]

\* glm::vec3 positions[] of main
positions == <<
    Vec(-60, -90, -60), Vec(-30, -90, -40), Vec(  0, -90, -30), Vec( 30, -90, -20),
    Vec( 60, -90, -10), Vec(-60, -90,  10), Vec(-30, -90,  20), Vec(  0, -90,  30),
    Vec( 30, -90,  40), Vec(-20, -90,   0), Vec( 60, -90,  50) >>

\* the objects vector as main assembles it: eleven cubes, floor, ceiling, four walls
objects ==
    [i \in 1..11 |-> Object("cube", positions[i], Vec(6, 6, 6))]
    \o << Object("floor",   Vec(0, -100, 0),  Vec(10, 10, 10)),
          Object("ceiling", Vec(0, 55, 0),    Vec(10, 10, 10)),
          Object("wall",    Vec(0, -10, -100), Vec(10, 10, 10)),
          Object("wall",    Vec(100, -10, 0),  Vec(10, 10, 10)),
          Object("wall",    Vec(-100, -10, 0), Vec(10, 10, 10)),
          Object("wall",    Vec(0, -10, 100),  Vec(10, 10, 10)) >>

----------------------------------------------------------------------------
(* checkCollision and objectCollision *)

\* the condition of the loop over roomBounds, for one bound
InBound(position, bound) ==
    /\ position.x >= bound.xMin /\ position.x <= bound.xMax
    /\ position.y >= bound.yMin /\ position.y <= bound.yMax
    /\ position.z >= bound.zMin /\ position.z <= bound.zMax

\* std::max(lo, std::min(v, hi))
Clamp(v, lo, hi) == Max(lo, Min(v, hi))

\* glm::length(v), squared
LengthSq(v) == v.x * v.x + v.y * v.y + v.z * v.z

\* mutant: touching counts as a collision
objectCollisionInclusive(sphereCenter, sphereRadius, boxCenter, boxScale) ==
    LET halfSize == Vec(boxScale.x \div 2, boxScale.y \div 2, boxScale.z \div 2)
        x == Clamp(sphereCenter.x, boxCenter.x - halfSize.x, boxCenter.x + halfSize.x)
        y == Clamp(sphereCenter.y, boxCenter.y - halfSize.y, boxCenter.y + halfSize.y)
        z == Clamp(sphereCenter.z, boxCenter.z - halfSize.z, boxCenter.z + halfSize.z)
    IN  LengthSq(VSub(sphereCenter, Vec(x, y, z))) <= sphereRadius * sphereRadius

objectCollision(sphereCenter, sphereRadius, boxCenter, boxScale) ==
    LET halfSize == Vec(boxScale.x \div 2, boxScale.y \div 2, boxScale.z \div 2)
        x == Clamp(sphereCenter.x, boxCenter.x - halfSize.x, boxCenter.x + halfSize.x)
        y == Clamp(sphereCenter.y, boxCenter.y - halfSize.y, boxCenter.y + halfSize.y)
        z == Clamp(sphereCenter.z, boxCenter.z - halfSize.z, boxCenter.z + halfSize.z)
        closestPoint == Vec(x, y, z)
    IN  LengthSq(VSub(sphereCenter, closestPoint)) < sphereRadius * sphereRadius

checkCollision(position, objs) ==
    \/ \E i \in 1..Len(roomBounds) : InBound(position, roomBounds[i])
    \/ \E i \in 1..Len(objs) :
          /\ objs[i].name = "cube"
          /\ objectCollision(position, cameraRadius, objs[i].position, objs[i].scale)

----------------------------------------------------------------------------
(* Camera basis (Camera::calculateCameraVectors) *)

QuarterTurn == 15710     \* pi/2
PitchA == 6435           \* atan(3/4)
PitchB == 24980          \* pi - atan(3/4)

\* 5*cos and 5*sin of the angles the model visits
Cos5(a) ==
    CASE a % (4 * QuarterTurn) = 0 -> 5
      [] a % (4 * QuarterTurn) = QuarterTurn -> 0
      [] a % (4 * QuarterTurn) = 2 * QuarterTurn -> -5
      [] a % (4 * QuarterTurn) = 3 * QuarterTurn -> 0
      [] Abs(a) = PitchA -> 4
      [] Abs(a) = PitchB -> -4

Sin5(a) ==
    CASE a % (4 * QuarterTurn) = 0 -> 0
      [] a % (4 * QuarterTurn) = QuarterTurn -> 5
      [] a % (4 * QuarterTurn) = 2 * QuarterTurn -> 0
      [] a % (4 * QuarterTurn) = 3 * QuarterTurn -> -5
      [] a = PitchA -> 3
      [] a = -PitchA -> -3
      [] a = PitchB -> 3
      [] a = -PitchB -> -3

YawAngles == {k * QuarterTurn : k \in -4..4}
PitchAngles == {0, -PitchA, -PitchB}

\* normalize(v) for a vector along one horizontal axis
Normalize5(v) == LET len == Abs(v.x) + Abs(v.z)
                 IN  Vec((5 * v.x) \div len, 0, (5 * v.z) \div len)

\* cross(a, worldUp), worldUp = (0, 1, 0)
CrossUp(a) == Vec(-a.z, 0, a.x)

Front(y, p) == Vec((Cos5(p) * Cos5(y)) \div 5, Sin5(p), (Cos5(p) * Sin5(y)) \div 5)
Right(y, p) == Normalize5(CrossUp(Front(y, p)))

----------------------------------------------------------------------------
(* keyboardInput *)

\* mutant: the step does not scale with the frame time
MoveWNoDelta(e, ks) == IF "W" \in ks THEN VAdd(e, VScale(Speed, front)) ELSE e

\* the four WSAD statements, applied in source order
MoveW(e, ks) == IF "W" \in ks THEN VAdd(e, VScale(Speed * deltaTime, front)) ELSE e
MoveS(e, ks) == IF "S" \in ks THEN VSub(e, VScale(Speed * deltaTime, front)) ELSE e
MoveA(e, ks) == IF "A" \in ks THEN VSub(e, VScale(Speed * deltaTime, right)) ELSE e
MoveD(e, ks) == IF "D" \in ks THEN VAdd(e, VScale(Speed * deltaTime, right)) ELSE e
Moved(e, ks) == MoveD(MoveA(MoveS(MoveW(e, ks), ks), ks), ks)

\* mutant: the y lock is missing
StickToLowLevelOff(e) == e

\* camera.eye.y = -4.0f
StickToLowLevel(e) == [e EXCEPT !.y = FloorY]

\* the position handed to checkCollision: all pressed keys applied, then the y lock
Candidate(e, ks) == StickToLowLevel(Moved(e, ks))

\* the positions camera.eye holds after each pressed key's statement
StepPositions(e, ks) ==
    {MoveW(e, ks) : k \in ks \cap {"W"}}
    \cup {MoveS(MoveW(e, ks), ks) : k \in ks \cap {"S"}}
    \cup {MoveA(MoveS(MoveW(e, ks), ks), ks) : k \in ks \cap {"A"}}
    \cup {Moved(e, ks) : k \in ks \cap {"D"}}

\* mutant: every step of the movement is tested
HitAnyStep(e, ks) ==
    \E p \in StepPositions(e, ks) : checkCollision(StickToLowLevel(p), objects)

\* mutant: the test is made before the y lock
HitBeforeLock(e, ks) == checkCollision(Moved(e, ks), objects)

\* the one collision test of keyboardInput: checkCollision(camera.eye, objects)
Hit(e, ks) == checkCollision(Candidate(e, ks), objects)

\* mutant: only the z coordinate is reverted
ArbitrateZOnly(originalPos, candidate, hit) ==
    IF hit THEN [candidate EXCEPT !.z = originalPos.z] ELSE candidate

\* if (checkCollision(camera.eye, objects)) camera.eye = originalPos;
Arbitrate(originalPos, candidate, hit) == IF hit THEN originalPos ELSE candidate

\* mutant: Escape is not read
CloseFlagDeaf(flag, ks) == flag

\* glfwSetWindowShouldClose(window, true) when Escape is pressed
CloseFlag(flag, ks) == flag \/ "Esc" \in ks

\* the cap on the positions the model follows
InRange(e) == Abs(e.x) <= 5 * MaxCoord /\ Abs(e.z) <= 5 * MaxCoord

NoCall == [originalPos |-> Vec(0, 0, 0), keys |-> {}, hit |-> FALSE]

\* the key sets glfwGetKey reports: any of W, S, A, D, and Escape alone or with W
KeySets == SUBSET {"W", "S", "A", "D"} \cup {{"Esc"}, {"Esc", "W"}}

keyboardInput(ks) ==
    /\ pc = "keyboard"
    /\ LET originalPos == eye
           candidate == Candidate(eye, ks)
           hit == Hit(eye, ks)
       IN  /\ eye' = Arbitrate(originalPos, candidate, hit)
           /\ last' = [originalPos |-> originalPos, keys |-> ks, hit |-> hit]
    /\ InRange(eye')
    /\ shouldClose' = CloseFlag(shouldClose, ks)
    /\ pc' = "mouse"
    /\ UNCHANGED <<deltaTime, front, right, yaw, pitch, args>>

----------------------------------------------------------------------------
(* mouseInput *)

NewYaw(y, xPos) == y + Sensitivity * (xPos - CentreX)
\* mutant: the vertical delta is not inverted
NewPitchDown(p, yPos) == p + Sensitivity * (yPos - CentreY)

NewPitch(p, yPos) == p + Sensitivity * (CentreY - yPos)

\* cursor positions sampled by glfwGetCursorPos (the cursor is disabled, so unbounded)
CursorXs == {CentreX, CentreX + 6284, CentreX - 6284}
CursorYs == {CentreY, CentreY + 1287, CentreY - 1287, CentreY + 3709, CentreY - 3709}

mouseInput(xPos, yPos) ==
    /\ pc = "mouse"
    /\ yaw' = NewYaw(yaw, xPos)
    /\ pitch' = NewPitch(pitch, yPos)
    /\ Abs(yaw') <= MaxYaw /\ yaw' \in YawAngles
    /\ Abs(pitch') <= MaxPitch /\ pitch' \in PitchAngles
    /\ front' = Front(yaw', pitch')
    /\ right' = Right(yaw', pitch')
    /\ last' = NoCall
    /\ pc' = "render"
    /\ UNCHANGED <<shouldClose, deltaTime, eye, args>>

----------------------------------------------------------------------------
(* main: the render loop *)

\* time - previousTime of two readings of glfwGetTime: 0 s, 0.25 s and 1 s
DeltaTimes == {0, 1, 4}

\* while (!glfwWindowShouldClose(window)) { update timer
BeginFrame ==
    /\ pc = "loop"
    /\ ~shouldClose
    /\ \E dt \in DeltaTimes : deltaTime' = dt
    /\ pc' = "keyboard"
    /\ UNCHANGED <<shouldClose, eye, front, right, yaw, pitch, last, args>>

\* clear, draw, swap buffers, poll events: nothing of the modelled state changes
RenderFrame ==
    /\ pc = "render"
    /\ pc' = "loop"
    /\ UNCHANGED <<shouldClose, deltaTime, eye, front, right, yaw, pitch, last, args>>

\* the loop condition is false: cleanup and return 0
ExitLoop ==
    /\ pc = "loop"
    /\ shouldClose
    /\ pc' = "done"
    /\ UNCHANGED <<shouldClose, deltaTime, eye, front, right, yaw, pitch, last, args>>

\* The state when the loop is entered.  camera.eye is the constructor argument;
\* yaw, pitch and the basis are set by the Camera class, outside this file, and
\* are taken as the camera looking along -z: front (0,0,-1), right (1,0,0).
Init ==
    /\ pc = "loop"
    /\ shouldClose = FALSE
    /\ deltaTime = 0
    /\ eye = Vec(0, -80, 90)
    /\ yaw = -QuarterTurn
    /\ pitch = 0
    /\ front = Vec(0, 0, -5)
    /\ right = Vec(5, 0, 0)
    /\ last = NoCall
    /\ args = <<>>

Next ==
    \/ BeginFrame
    \/ \E ks \in KeySets : keyboardInput(ks)
    \/ \E xPos \in CursorXs, yPos \in CursorYs : mouseInput(xPos, yPos)
    \/ RenderFrame
    \/ ExitLoop

Spec == Init /\ [][Next]_vars

\* The loop with fewer inputs, for what it does on Escape: the loop is one
\* thread that keeps running, so a step that can be taken is taken
LoopKeySets == {{}, {"W"}, {"S", "D"}, {"Esc"}, {"Esc", "W"}}

NextLoop ==
    \/ BeginFrame
    \/ \E ks \in LoopKeySets : keyboardInput(ks)
    \/ \E xPos \in CursorXs : mouseInput(xPos, CentreY)
    \/ RenderFrame
    \/ ExitLoop

FairSpec == Init /\ [][NextLoop]_vars /\ WF_vars(NextLoop)

----------------------------------------------------------------------------
(* checkCollision called directly, on positions and object lists drawn from *)
(* bounded sets                                                             *)

ProbePoints == {Vec(x, y, z) : x \in {-101, -100, -90, 0, 16, 20, 21, 90, 101},
                               y \in {-101, -90, -89, 0, 18, 50, 61},
                               z \in {-101, -100, 0, 20, 21, 90, 100}}
ProbeObjects == {Object("cube", Vec(0, 0, 0), Vec(20, 20, 20)),
                 Object("wall", Vec(0, 0, 0), Vec(20, 20, 20)),
                 Object("floor", Vec(0, 0, 20), Vec(10, 10, 10)),
                 Object("cube", Vec(0, 0, 20), Vec(10, 10, 10))}
ProbeScenes == UNION {[1..n -> ProbeObjects] : n \in 0..MaxObjects}

InitProbe ==
    /\ pc = "probe"
    /\ shouldClose = FALSE
    /\ deltaTime = 0
    /\ eye = Vec(0, -80, 90)
    /\ yaw = -QuarterTurn
    /\ pitch = 0
    /\ front = Vec(0, 0, -5)
    /\ right = Vec(5, 0, 0)
    /\ last = NoCall
    /\ args \in [position : ProbePoints, objects : ProbeScenes]

Probe ==
    /\ pc = "probe"
    /\ last' = [originalPos |-> args.position, keys |-> {},
                 hit |-> checkCollision(args.position, args.objects)]
    /\ pc' = "probed"
    /\ UNCHANGED <<shouldClose, deltaTime, eye, front, right, yaw, pitch, args>>

NextProbe == Probe

CollisionSpec == InitProbe /\ [][NextProbe]_vars

----------------------------------------------------------------------------
(* Properties *)

\* one of the six room bounds holds p, all comparisons inclusive
InSolid(p) ==
    \/ p.x >= -100 /\ p.x <= 100 /\ p.y >= -100 /\ p.y <= -90 /\ p.z >= -100 /\ p.z <= 100
    \/ p.x >= -100 /\ p.x <= 100 /\ p.y >= 50 /\ p.y <= 60 /\ p.z >= -100 /\ p.z <= 100
    \/ p.x >= -100 /\ p.x <= 100 /\ p.y >= -90 /\ p.y <= 50 /\ p.z >= -100 /\ p.z <= -90
    \/ p.x >= -100 /\ p.x <= 100 /\ p.y >= -90 /\ p.y <= 50 /\ p.z >= 90 /\ p.z <= 100
    \/ p.x >= -100 /\ p.x <= -90 /\ p.y >= -90 /\ p.y <= 50 /\ p.z >= -100 /\ p.z <= 100
    \/ p.x >= 90 /\ p.x <= 100 /\ p.y >= -90 /\ p.y <= 50 /\ p.z >= -100 /\ p.z <= 100

\* distance, along one axis, from v to the interval [c - h, c + h]
AxisGap(v, c, h) == IF v < c - h THEN c - h - v ELSE IF v > c + h THEN v - c - h ELSE 0

\* squared distance from p to the axis-aligned box of centre c and half-extent s/2
BoxDistSq(p, c, s) ==
    AxisGap(p.x, c.x, s.x \div 2) * AxisGap(p.x, c.x, s.x \div 2)
    + AxisGap(p.y, c.y, s.y \div 2) * AxisGap(p.y, c.y, s.y \div 2)
    + AxisGap(p.z, c.z, s.z \div 2) * AxisGap(p.z, c.z, s.z \div 2)

NearCube(p, objs) ==
    \E i \in 1..Len(objs) :
        objs[i].name = "cube" /\ BoxDistSq(p, objs[i].position, objs[i].scale) < 100

Cubes(objs) == SelectSeq(objs, LAMBDA o : o.name = "cube")

\* C1: checkCollision(p, objects) is true iff p is inside one of the six room
\* bounds (inclusive) or some object named "cube" has its axis-aligned box at
\* distance strictly less than 0.5 from p; objects of other names never change
\* the result
C1_CheckCollision ==
    pc = "probed" =>
        /\ last.hit = (InSolid(args.position) \/ NearCube(args.position, args.objects))
        /\ last.hit = (InSolid(args.position) \/ NearCube(args.position, Cubes(args.objects)))

\* a point at exactly 0.5 from the only cube's box, next to a wall object: no collision
C1_Witness ==
    /\ pc = "probed"
    /\ args.position = Vec(20, 0, 0)
    /\ args.objects = <<Object("cube", Vec(0, 0, 0), Vec(20, 20, 20)),
                        Object("wall", Vec(0, 0, 0), Vec(20, 20, 20))>>
    /\ ~last.hit

\* the position the keys of the call that has just returned proposed: originalPos
\* plus 5 * deltaTime * front for W, minus it for S, minus / plus right for A / D
Bit(k) == IF k \in last.keys THEN 1 ELSE 0
Proposed ==
    LET fwd == 5 * deltaTime * (Bit("W") - Bit("S"))
        side == 5 * deltaTime * (Bit("D") - Bit("A"))
    IN  Vec(last.originalPos.x + fwd * front.x + side * right.x,
            last.originalPos.y + fwd * front.y + side * right.y,
            last.originalPos.z + fwd * front.z + side * right.z)
Locked == Vec(Proposed.x, -80, Proposed.z)

\* some position reached after one pressed key's displacement collides
StepHit ==
    LET o == last.originalPos
        d == 5 * deltaTime
        f(n) == Vec(o.x + n * d * front.x, -80, o.z + n * d * front.z)
        fr(n, m) == Vec(o.x + n * d * front.x + m * d * right.x, -80,
                        o.z + n * d * front.z + m * d * right.z)
    IN  \/ "W" \in last.keys /\ checkCollision(f(1), objects)
        \/ "S" \in last.keys /\ checkCollision(f(Bit("W") - 1), objects)
        \/ "A" \in last.keys /\ checkCollision(fr(Bit("W") - Bit("S"), -1), objects)
        \/ "D" \in last.keys /\ checkCollision(fr(Bit("W") - Bit("S"), Bit("D") - Bit("A")), objects)

\* C2: a tick's move is rejected or committed as a whole: when the moved
\* position (y at -4.0) collides, eye is the pre-tick eye in all coordinates;
\* otherwise eye is the moved position with y at -4.0; a move to (0,-4,0) is
\* committed
C2_AllOrNothing ==
    pc = "mouse" =>
        /\ last.hit = checkCollision(Locked, objects)
        /\ last.hit => eye = last.originalPos
        /\ ~last.hit => eye = Locked
        /\ Locked = Vec(0, -80, 0) => eye = Vec(0, -80, 0)

\* a diagonal move is rejected: neither its x nor its z part survives
C2_Witness ==
    /\ pc = "mouse"
    /\ last.hit
    /\ Locked.x # last.originalPos.x
    /\ Locked.z # last.originalPos.z
    /\ eye = last.originalPos

\* C3: camera.eye.y is -4.0 in every state
C3_VerticalLock == eye.y = -80

\* a move along a pitched front, whose proposed y is not -4.0, has been committed
C3_Witness ==
    /\ pc = "mouse"
    /\ ~last.hit
    /\ Proposed.y # -80
    /\ eye # last.originalPos
    /\ eye.y = -80

\* C4: at a tick boundary camera.eye is inside none of the six room bounds
C4_NeverInSolid == pc \in {"loop", "done"} => ~InSolid(eye)

\* the scenario of C5: eye (0,-4,4.5), front (0,0,-1), W only, deltaTime 1 s
C5_Scenario ==
    /\ pc = "mouse"
    /\ last.originalPos = Vec(0, -80, 90)
    /\ last.keys = {"W"}
    /\ front = Vec(0, 0, -5)
    /\ deltaTime = 4

\* C5 as stated: the proposed position is inside a wall bound, checkCollision
\* returns true and eye is still (0,-4,4.5)
C5_MoveDiscarded ==
    C5_Scenario => InSolid(Locked) /\ last.hit /\ eye = Vec(0, -80, 90)

\* C5, amended: the proposed position is (0,-4,-0.5), inside no room bound and
\* not within 0.5 of a cube; checkCollision returns false and eye is (0,-4,-0.5)
C5_MoveCommitted ==
    C5_Scenario =>
        /\ Locked = Vec(0, -80, -10)
        /\ ~InSolid(Locked) /\ ~NearCube(Locked, objects)
        /\ ~last.hit
        /\ eye = Vec(0, -80, -10)

C5_Witness == C5_Scenario /\ eye = Vec(0, -80, -10)

\* C6: Escape sampled as pressed sets the close flag; the flag stays set; once
\* it is set no tick starts and the loop terminates; the loop terminates only
\* with the flag set, and nothing runs after it has terminated
C6_QuitTerminates ==
    /\ [](pc = "mouse" /\ "Esc" \in last.keys => shouldClose)
    /\ [](pc = "done" => shouldClose)
    /\ [][/\ shouldClose => shouldClose' /\ pc' # "keyboard"
          /\ pc = "done" => pc' = "done"
          /\ ~shouldClose /\ shouldClose' => pc = "keyboard" /\ "Esc" \in last'.keys]_vars
    /\ (shouldClose ~> pc = "done")

C6_Witness == pc = "done" /\ shouldClose /\ eye # Vec(0, -80, 90)

\* C7: a look step with the cursor at (x, y) adds 0.0005 * (x - 512) to yaw and
\* 0.0005 * (384 - y) to pitch, with no clamp, and leaves eye unchanged
C7_LookStep ==
    [][\A x \in CursorXs, y \in CursorYs :
          mouseInput(x, y) =>
              /\ yaw' = yaw + 5 * (x - 512)
              /\ pitch' = pitch + 5 * (384 - y)
              /\ eye' = eye
              /\ (x = 512 /\ y = 384 => yaw' = yaw /\ pitch' = pitch)]_vars

\* yaw has turned and pitch has gone past a quarter turn downwards
C7_Witness == pc = "render" /\ yaw = 15710 /\ pitch < -15710

\* C8 as stated: when the position after some pressed key's displacement
\* collides, eye is the pre-tick eye
C8_EveryStepTested == pc = "mouse" /\ StepHit => eye = last.originalPos

\* C8, amended: one test is made per tick, on the position reached after all
\* pressed keys' displacements: when that position does not collide it is
\* committed, also when the position after an earlier key's displacement collides
C8_OnlyFinalTested ==
    pc = "mouse" =>
        /\ StepHit /\ ~checkCollision(Locked, objects) => ~last.hit /\ eye = Locked
        /\ checkCollision(Locked, objects) => eye = last.originalPos

C8_Witness ==
    /\ pc = "mouse"
    /\ StepHit
    /\ ~last.hit
    /\ eye = Locked
    /\ eye # last.originalPos

\* C9 as stated: a candidate whose proposed position, before the y lock, is
\* inside a room bound is rejected
C9_TestedAsProposed == pc = "mouse" /\ InSolid(Proposed) => eye = last.originalPos

\* C9, amended: the y lock is applied before the collision test: a candidate
\* whose proposed position is inside a room bound is committed, with y at -4.0,
\* when the position with y at -4.0 does not collide
C9_TestedAfterLock ==
    pc = "mouse" /\ InSolid(Proposed) /\ ~checkCollision(Locked, objects)
        => ~last.hit /\ eye = Locked

\* W along a front that points down: the proposed y is in the floor bound
C9_Witness ==
    /\ pc = "mouse"
    /\ last.keys = {"W"}
    /\ front.y < 0
    /\ Proposed.y <= -90
    /\ InSolid(Proposed)
    /\ eye = Locked
    /\ eye # last.originalPos

\* C10: camera.eye stays within -5 <= x <= 5 and -5 <= z <= 5
C10_StaysInRoom == eye.x >= -100 /\ eye.x <= 100 /\ eye.z >= -100 /\ eye.z <= 100

====
